---- MODULE Spec2Model ----
(***************************************************************************)
(* pb-async: the PushBullet client of src/src/lib.rs.                      *)
(*                                                                         *)
(* The model follows one Client through its construction (Client::new,     *)
(* Client::with_client) and through call chains of its four public         *)
(* operations.  The remote side is the environment: it answers every       *)
(* request handed to the transport with a transport failure or with a      *)
(* response (status, body).  A body is a sequence of JSON lexemes; the      *)
(* decoding of a body (serde_json::from_slice) and of a JSON value into a  *)
(* struct (the derived Deserialize) are computed, not assumed.             *)
(***************************************************************************)
EXTENDS Integers, Sequences, FiniteSets, TLC

(***************************************************************************)
(* Bounds of the model.                                                    *)
(***************************************************************************)
MaxJunkLen == 1
MaxChunks == 2

(***************************************************************************)
(* JSON lexemes.  A response body is a sequence of lexemes: the bytes of   *)
(* the body cut at the lexeme borders.  "junk" is a run of bytes that is   *)
(* no JSON lexeme.                                                         *)
(***************************************************************************)
S(x) == [tk |-> "str", lex |-> x]
N(x) == [tk |-> "num", lex |-> x]
L(x) == [tk |-> "lit", lex |-> x]
P(x) == [tk |-> x, lex |-> x]
LB == P("{")
RB == P("}")
LK == P("[")
RK == P("]")
CO == P(":")
CM == P(",")
JUNK == [tk |-> "junk", lex |-> "<html>"]

(***************************************************************************)
(* serde_json::Value.                                                      *)
(***************************************************************************)
VNull == [t |-> "null"]
VBool(b) == [t |-> "bool", b |-> b]
VNum(x) == [t |-> "num", lex |-> x]
VStr(x) == [t |-> "str", s |-> x]
VArr(a) == [t |-> "arr", a |-> a]
VObj(o) == [t |-> "obj", o |-> o]

Fail == [ok |-> FALSE]

(***************************************************************************)
(* serde_json::from_slice into a Value: a recursive descent over the       *)
(* lexemes.  Each parser returns [ok, v, rest].  An object is a map: a key  *)
(* that occurs twice keeps its last value.                                 *)
(***************************************************************************)
RECURSIVE ParseValue(_), ParseElems(_, _), ParseMembers(_, _)

ParseValue(ts) ==
    IF ts = <<>> THEN Fail
    ELSE LET h == Head(ts)
             r == Tail(ts)
         IN CASE h.tk = "str" -> [ok |-> TRUE, v |-> VStr(h.lex), rest |-> r]
              [] h.tk = "num" -> [ok |-> TRUE, v |-> VNum(h.lex), rest |-> r]
              [] h.tk = "lit" ->
                    [ok |-> TRUE,
                     v |-> IF h.lex = "null" THEN VNull ELSE VBool(h.lex = "true"),
                     rest |-> r]
              [] h.tk = "[" ->
                    IF r # <<>> /\ Head(r).tk = "]"
                    THEN [ok |-> TRUE, v |-> VArr(<<>>), rest |-> Tail(r)]
                    ELSE ParseElems(r, <<>>)
              [] h.tk = "{" ->
                    IF r # <<>> /\ Head(r).tk = "}"
                    THEN [ok |-> TRUE, v |-> VObj(<<>>), rest |-> Tail(r)]
                    ELSE ParseMembers(r, <<>>)
              [] OTHER -> Fail

ParseElems(ts, acc) ==
    LET e == ParseValue(ts)
    IN IF ~e.ok \/ e.rest = <<>> THEN Fail
       ELSE LET sep == Head(e.rest)
                acc2 == Append(acc, e.v)
            IN CASE sep.tk = "]" -> [ok |-> TRUE, v |-> VArr(acc2), rest |-> Tail(e.rest)]
                 [] sep.tk = "," -> ParseElems(Tail(e.rest), acc2)
                 [] OTHER -> Fail

ParseMembers(ts, acc) ==
    IF Len(ts) < 2 \/ ts[1].tk # "str" \/ ts[2].tk # ":" THEN Fail
    ELSE LET e == ParseValue(SubSeq(ts, 3, Len(ts)))
         IN IF ~e.ok \/ e.rest = <<>> THEN Fail
            ELSE LET sep == Head(e.rest)
                     acc2 == (ts[1].lex :> e.v) @@ acc
                 IN CASE sep.tk = "}" -> [ok |-> TRUE, v |-> VObj(acc2), rest |-> Tail(e.rest)]
                      [] sep.tk = "," -> ParseMembers(Tail(e.rest), acc2)
                      [] OTHER -> Fail

\* serde_json::from_slice(&*bytes): one value, and nothing after it.
from_slice(bytes) ==
    LET p == ParseValue(bytes)
    IN IF p.ok /\ p.rest = <<>> THEN [ok |-> TRUE, v |-> p.v] ELSE Fail

(***************************************************************************)
(* The structs the responses are decoded into (#[derive(Deserialize)]):    *)
(* their fields in declaration order, each with its type and whether it    *)
(* carries #[serde(default)].                                              *)
(***************************************************************************)
F(n, ty) == [name |-> n, ty |-> ty, dflt |-> FALSE]
FD(n, ty) == [name |-> n, ty |-> ty, dflt |-> TRUE]

ErrorData == <<F("code", "String"), F("message", "String")>>

RawUploadRequestResponse ==
    <<F("file_name", "String"), F("file_type", "String"),
      F("file_url", "String"), F("upload_url", "String")>>

User ==
    <<F("created", "f64"), F("email", "String"), F("email_normalized", "String"),
      F("iden", "String"), F("image_url", "OptString"), F("max_upload_size", "f64"),
      F("modified", "f64"), F("name", "String"), FD("_priv", "Unit")>>

Device ==
    <<F("active", "bool"), F("created", "f64"), F("iden", "String"),
      F("modified", "f64"), F("nickname", "OptString"), FD("_priv", "Unit")>>

Devices == <<F("devices", "VecDevice")>>

StructTypes == {"ErrorData", "RawUploadRequestResponse", "User", "Device", "Devices"}

Fields(ty) ==
    CASE ty = "ErrorData" -> ErrorData
      [] ty = "RawUploadRequestResponse" -> RawUploadRequestResponse
      [] ty = "User" -> User
      [] ty = "Device" -> Device
      [] ty = "Devices" -> Devices

NoneOpt == [some |-> FALSE]
SomeOpt(x) == [some |-> TRUE, s |-> x]
Unit == "()"

\* The value of a field the input does not give: Default::default() of a
\* #[serde(default)] field, None of an Option.
Missing(ty) == IF ty = "Unit" THEN Unit ELSE NoneOpt

(***************************************************************************)
(* Deserialize for a type from a serde_json::Value.  A derived struct      *)
(* decodes from a map (visit_map: by field name, unknown keys ignored,     *)
(* a missing field is an error unless it is an Option or has a default)    *)
(* and from a sequence (visit_seq: by position, a missing element is an    *)
(* error unless the field has a default, and no element may be left).      *)
(* Returns [ok, val].                                                      *)
(***************************************************************************)
RECURSIVE De(_, _)

De(ty, v) ==
    CASE ty = "String" ->
            IF v.t = "str" THEN [ok |-> TRUE, val |-> v.s] ELSE Fail
      [] ty = "f64" ->
            IF v.t = "num" THEN [ok |-> TRUE, val |-> v.lex] ELSE Fail
      [] ty = "bool" ->
            IF v.t = "bool" THEN [ok |-> TRUE, val |-> v.b] ELSE Fail
      [] ty = "Unit" ->
            IF v.t = "null" THEN [ok |-> TRUE, val |-> Unit] ELSE Fail
      [] ty = "OptString" ->
            IF v.t = "null" THEN [ok |-> TRUE, val |-> NoneOpt]
            ELSE IF v.t = "str" THEN [ok |-> TRUE, val |-> SomeOpt(v.s)]
            ELSE Fail
      [] ty = "VecDevice" ->
            IF v.t = "arr" /\ \A i \in 1..Len(v.a) : De("Device", v.a[i]).ok
            THEN [ok |-> TRUE, val |-> [i \in 1..Len(v.a) |-> De("Device", v.a[i]).val]]
            ELSE Fail
      [] ty \in StructTypes ->
            LET fs == Fields(ty)
                names == {fs[i].name : i \in 1..Len(fs)}
                idx(n) == CHOOSE i \in 1..Len(fs) : fs[i].name = n
            IN CASE v.t = "obj" ->
                      IF \A i \in 1..Len(fs) :
                            IF fs[i].name \in DOMAIN v.o
                            THEN De(fs[i].ty, v.o[fs[i].name]).ok
                            ELSE fs[i].dflt \/ fs[i].ty = "OptString"
                      THEN [ok |-> TRUE,
                            val |-> [n \in names |->
                                        IF n \in DOMAIN v.o
                                        THEN De(fs[idx(n)].ty, v.o[n]).val
                                        ELSE Missing(fs[idx(n)].ty)]]
                      ELSE Fail
                 [] v.t = "arr" ->
                      IF /\ Len(v.a) <= Len(fs)
                         /\ \A i \in 1..Len(fs) :
                               IF i <= Len(v.a) THEN De(fs[i].ty, v.a[i]).ok
                               ELSE fs[i].dflt
                      THEN [ok |-> TRUE,
                            val |-> [n \in names |->
                                        IF idx(n) <= Len(v.a)
                                        THEN De(fs[idx(n)].ty, v.a[idx(n)]).val
                                        ELSE Missing(fs[idx(n)].ty)]]
                      ELSE Fail
                 [] OTHER -> Fail

\* serde_json::from_value::<T>(data)
from_value(ty, data) == De(ty, data)


(***************************************************************************)
(* Results.  RequestError (src/src/errors.rs) has five variants; the       *)
(* serde_json::Error a Json carries is kept as its category: "syntax" for  *)
(* bytes that are no JSON, "data" for JSON of the wrong shape.             *)
(***************************************************************************)
NoResult == [kind |-> "None"]
Ok(v) == [kind |-> "Ok", v |-> v]
Http == [kind |-> "Http"]
Hyper == [kind |-> "Hyper"]
Status(status, bytes) == [kind |-> "Status", status |-> status, bytes |-> bytes]
Json(error, bytes) == [kind |-> "Json", error |-> error, bytes |-> bytes]
Server(code, message) == [kind |-> "Server", code |-> code, message |-> message]

Tls == [kind |-> "Tls"]
InvalidToken(token) == [kind |-> "InvalidToken", token |-> token]

API_ROOT == "https://api.pushbullet.com/v2/"
TOKEN_HEADER == "Access-Token"
CONTENT_TYPE == "content-type"
CONTENT_LENGTH == "content-length"

\* http::StatusCode::is_success
is_success(status) == 200 <= status /\ status < 300

(***************************************************************************)
(* HeaderValue::from_str(token): a token is a sequence of bytes; every     *)
(* byte must be a tab or at least 32 and not DEL.                          *)
(***************************************************************************)
is_valid(b) == (b >= 32 /\ b # 127) \/ b = 9

HeaderValue_from_str(token) ==
    IF \A i \in 1..Len(token) : is_valid(token[i])
    THEN [ok |-> TRUE, v |-> token]
    ELSE Fail

\* Client::new: the TLS connector first, then the token.
Client_new(token, tlsOk) ==
    IF ~tlsOk THEN Tls
    ELSE IF ~HeaderValue_from_str(token).ok THEN InvalidToken(token)
    ELSE Ok([token |-> HeaderValue_from_str(token).v])

\* A variant of with_client that stores the token without checking it.
Client_with_client_unchecked(token) == Ok([token |-> token])

\* Client::with_client: the token only.
Client_with_client(token) ==
    IF ~HeaderValue_from_str(token).ok THEN InvalidToken(token)
    ELSE Ok([token |-> HeaderValue_from_str(token).v])

(***************************************************************************)
(* serde_json::to_string of a struct whose fields are strings: the fields  *)
(* as <<key, value>> pairs, in order.                                      *)
(***************************************************************************)
RECURSIVE Entries(_)

Entries(kvs) ==
    IF kvs = <<>> THEN <<>>
    ELSE <<S(kvs[1][1]), CO, S(kvs[1][2])>>
         \o (IF Len(kvs) > 1 THEN <<CM>> ELSE <<>>)
         \o Entries(Tail(kvs))

to_string(kvs) == <<LB>> \o Entries(kvs) \o <<RB>>

\* A variant of PushTarget_fields without the #[serde(rename = ...)] of the
\* variants' fields: each goes out under its Rust name.
PushTarget_fields_unrenamed(target) ==
    CASE target.variant = "SelfUser" -> <<>>
      [] target.variant = "Device" -> << <<"iden", target.iden>> >>
      [] target.variant = "User" -> << <<"email", target.email>> >>
      [] target.variant = "Channel" -> << <<"tag", target.tag>> >>
      [] target.variant = "Client" -> << <<"iden", target.iden>> >>

\* PushTarget: #[serde(untagged)], the fields under their wire names.
PushTarget_fields(target) ==
    CASE target.variant = "SelfUser" -> <<>>
      [] target.variant = "Device" -> << <<"device_iden", target.iden>> >>
      [] target.variant = "User" -> << <<"email", target.email>> >>
      [] target.variant = "Channel" -> << <<"channel_tag", target.tag>> >>
      [] target.variant = "Client" -> << <<"client_iden", target.iden>> >>

\* PushData: #[serde(tag = "type")], #[serde(rename_all = "snake_case")].
PushData_fields(data) ==
    CASE data.variant = "Note" ->
            << <<"type", "note">>, <<"title", data.title>>, <<"body", data.body>> >>
      [] data.variant = "Link" ->
            << <<"type", "link">>, <<"title", data.title>>, <<"body", data.body>>,
               <<"url", data.url>> >>
      [] data.variant = "File" ->
            << <<"type", "file">>, <<"body", data.body>>,
               <<"file_name", data.file_name>>, <<"file_type", data.file_type>>,
               <<"file_url", data.file_url>> >>

\* struct Push { #[serde(flatten)] data, #[serde(flatten)] target }
Push_fields(target, data) == PushData_fields(data) \o PushTarget_fields(target)

(***************************************************************************)
(* The requests.  Client::request builds the request for a fixed endpoint: *)
(* the method, API_ROOT followed by the target, the token header, then     *)
(* the headers `extra` adds.                                               *)
(***************************************************************************)
request(self, target, body, method, extra) ==
    [method |-> method,
     uri |-> API_ROOT \o target,
     headers |-> extra @@ (TOKEN_HEADER :> self.token),
     body |-> body]

get(self, target) == request(self, target, <<>>, "GET", <<>>)

post(self, target, body) ==
    request(self, target, body, "POST",
            (CONTENT_TYPE :> "application/json") @@ (CONTENT_LENGTH :> Len(body)))

\* A variant of the closure below whose Json error has lost the bytes.
request_and_then_drops_bytes(status, bytes) ==
    LET parsed == from_slice(bytes)
    IN IF ~parsed.ok THEN Json("syntax", <<>>)
       ELSE LET data == parsed.v
                err_data == IF data.t = "obj" /\ "error" \in DOMAIN data.o
                            THEN De("ErrorData", data.o["error"])
                            ELSE Fail
            IN IF err_data.ok THEN Server(err_data.val.code, err_data.val.message)
               ELSE IF ~is_success(status) THEN Status(status, bytes)
               ELSE Ok([bytes |-> bytes, data |-> data])

\* A variant of the closure below that looks at the status before the body.
request_and_then_status_first(status, bytes) ==
    IF ~is_success(status) THEN Status(status, bytes)
    ELSE LET parsed == from_slice(bytes)
         IN IF ~parsed.ok THEN Json("syntax", bytes)
            ELSE LET data == parsed.v
                     err_data == IF data.t = "obj" /\ "error" \in DOMAIN data.o
                                 THEN De("ErrorData", data.o["error"])
                                 ELSE Fail
                 IN IF err_data.ok THEN Server(err_data.val.code, err_data.val.message)
                    ELSE Ok([bytes |-> bytes, data |-> data])

(***************************************************************************)
(* The closure Client::request runs on a buffered response (parts, body):  *)
(* JSON first, then the error object, then the status.                     *)
(***************************************************************************)
request_and_then(status, bytes) ==
    LET parsed == from_slice(bytes)
    IN IF ~parsed.ok THEN Json("syntax", bytes)
       ELSE LET data == parsed.v
                err_data == IF data.t = "obj" /\ "error" \in DOMAIN data.o
                            THEN De("ErrorData", data.o["error"])
                            ELSE Fail
            IN IF err_data.ok THEN Server(err_data.val.code, err_data.val.message)
               ELSE IF ~is_success(status) THEN Status(status, bytes)
               ELSE Ok([bytes |-> bytes, data |-> data])

\* The closure of get_user on the pipeline's success.
get_user_and_then(r) ==
    LET d == from_value("User", r.data)
    IN IF d.ok THEN Ok(d.val) ELSE Json("data", r.bytes)

\* The closure of list_devices on the pipeline's success.
list_devices_and_then(r) ==
    LET d == from_value("Devices", r.data)
    IN IF d.ok THEN Ok(d.val.devices) ELSE Json("data", r.bytes)

\* push maps the pipeline's success to ().
push_map(r) == Ok(Unit)

(***************************************************************************)
(* http::Uri of the upload_url the server names: hyper::Request::post      *)
(* keeps the parse error and Builder::body returns it.  The URLs of the    *)
(* model and whether they parse: an empty string and a string with a       *)
(* space do not.                                                           *)
(***************************************************************************)
GoodUrl == "https://y/put"
EmptyUrl == ""
SpaceUrl == "https://y/ put"
Uri_parses(url) == url \notin {EmptyUrl, SpaceUrl}

MultipartBoundary == "boundary"

(***************************************************************************)
(* mpart_async::MultipartRequest, the body of the transfer request.  The   *)
(* bytes of a multipart body are cut at the borders of its framing: a line *)
(* break, "--" followed by a boundary, "--", the two parameters of the     *)
(* Content-Disposition line, the Content-Type line, and the bytes of the   *)
(* payload.  A payload is any bytes: it may hold line breaks and dashes.   *)
(***************************************************************************)
CRLF == [tk |-> "crlf", lex |-> ""]
DashBoundary(boundary) == [tk |-> "--boundary", lex |-> boundary]
DashDash == P("--")
DispositionName(name) == [tk |-> "disposition-name", lex |-> name]
DispositionFilename(filename) == [tk |-> "disposition-filename", lex |-> filename]
ContentTypeLine(content_type) == [tk |-> "content-type", lex |-> content_type]
Byte(x) == [tk |-> "byte", lex |-> x]

\* MultipartRequest::default(): no items, nothing written, a boundary drawn
\* at random.
MultipartRequest_default(boundary) ==
    [boundary |-> boundary, items |-> <<>>, state |-> "none", cur |-> <<>>]

\* add_stream(name, filename, content_type, stream): one more item.  The
\* stream is the sequence of chunks it has yet to yield.
add_stream(mpart, name, filename, content_type, stream) ==
    [mpart EXCEPT !.items = Append(@, [name |-> name, filename |-> filename,
                                       content_type |-> content_type,
                                       stream |-> stream])]

get_boundary(mpart) == mpart.boundary

\* The header of a stream item and the ending of the body.
write_header(boundary, item) ==
    <<DashBoundary(boundary), CRLF,
      DispositionName(item.name), DispositionFilename(item.filename), CRLF,
      ContentTypeLine(item.content_type), CRLF,
      CRLF>>
write_ending(boundary) == <<DashBoundary(boundary), DashDash, CRLF>>

\* Stream::poll of a MultipartRequest that is not finished: the chunk it
\* yields, whether it polled the item's stream, and the streamer after it.
\* The header of the next item; a chunk of the item's stream as it is; a
\* line break when that stream has ended; the ending after the last item.
MultipartRequest_poll(mpart) ==
    CASE mpart.state = "none" /\ mpart.items = <<>> ->
            [bytes |-> write_ending(mpart.boundary), polled |-> FALSE,
             next |-> [mpart EXCEPT !.state = "finished"]]
      [] mpart.state = "none" /\ mpart.items # <<>> ->
            [bytes |-> write_header(mpart.boundary, Head(mpart.items)), polled |-> FALSE,
             next |-> [mpart EXCEPT !.state = "stream",
                                    !.cur = Head(mpart.items).stream,
                                    !.items = Tail(@)]]
      [] mpart.state = "stream" /\ mpart.cur # <<>> ->
            [bytes |-> Head(mpart.cur), polled |-> TRUE,
             next |-> [mpart EXCEPT !.cur = Tail(@)]]
      [] mpart.state = "stream" /\ mpart.cur = <<>> ->
            [bytes |-> <<CRLF>>, polled |-> TRUE,
             next |-> [mpart EXCEPT !.state = "none"]]

\* A variant of the closure below that expects the request to be well-formed,
\* as Client::request does, instead of returning the error.
upload_request_and_then_expect(token, r, upload_data, boundary) ==
    LET d == from_value("RawUploadRequestResponse", r.data)
        mpart == add_stream(MultipartRequest_default(boundary), "file",
                            d.val.file_name, d.val.file_type, upload_data)
    IN IF ~d.ok THEN Json("data", r.bytes)
       ELSE IF ~Uri_parses(d.val.upload_url) THEN [kind |-> "Panic"]
       ELSE Ok([request |->
                    [method |-> "POST",
                     uri |-> d.val.upload_url,
                     headers |-> (TOKEN_HEADER :> token)
                                 @@ (CONTENT_TYPE :> ("multipart/form-data; boundary="
                                                      \o get_boundary(mpart))),
                     body |-> mpart],
                last_response |->
                    [file_name |-> d.val.file_name,
                     file_type |-> d.val.file_type,
                     file_url |-> d.val.file_url]])

\* A variant of the closure below that declares a boundary of its own in the
\* content-type header, not the one the multipart stream drew.
upload_request_and_then_own_boundary(token, r, upload_data, boundary) ==
    LET d == from_value("RawUploadRequestResponse", r.data)
        mpart == add_stream(MultipartRequest_default(boundary), "file",
                            d.val.file_name, d.val.file_type, upload_data)
    IN IF ~d.ok THEN Json("data", r.bytes)
       ELSE IF ~Uri_parses(d.val.upload_url) THEN Http
       ELSE Ok([request |->
                    [method |-> "POST",
                     uri |-> d.val.upload_url,
                     headers |-> (TOKEN_HEADER :> token)
                                 @@ (CONTENT_TYPE :> ("multipart/form-data; boundary="
                                                      \o MultipartBoundary)),
                     body |-> mpart],
                last_response |->
                    [file_name |-> d.val.file_name,
                     file_type |-> d.val.file_type,
                     file_url |-> d.val.file_url]])

(***************************************************************************)
(* The first closure of upload_request, on the request phase's success:    *)
(* decode the response, wrap the caller's stream as the one part "file",   *)
(* build the POST to upload_url.  Ok carries (request, last_response).     *)
(***************************************************************************)
upload_request_and_then(token, r, upload_data, boundary) ==
    LET d == from_value("RawUploadRequestResponse", r.data)
        mpart == add_stream(MultipartRequest_default(boundary), "file",
                            d.val.file_name, d.val.file_type, upload_data)
    IN IF ~d.ok THEN Json("data", r.bytes)
       ELSE IF ~Uri_parses(d.val.upload_url) THEN Http
       ELSE Ok([request |->
                    [method |-> "POST",
                     uri |-> d.val.upload_url,
                     headers |-> (TOKEN_HEADER :> token)
                                 @@ (CONTENT_TYPE :> ("multipart/form-data; boundary="
                                                      \o get_boundary(mpart))),
                     body |-> mpart],
                last_response |->
                    [file_name |-> d.val.file_name,
                     file_type |-> d.val.file_type,
                     file_url |-> d.val.file_url]])

\* A variant of the closure below that classifies the transfer's response as
\* the pipeline classifies its responses.
upload_transfer_and_then_classified(status, bytes, last) ==
    LET r == request_and_then(status, bytes)
    IN IF r.kind = "Ok" THEN Ok(last) ELSE r

\* A variant of the closure below that does not look at the status.
upload_transfer_and_then_lenient(status, bytes, last) == Ok(last)

\* The closure of upload_request on the transfer phase's response.
upload_transfer_and_then(status, bytes, last) ==
    IF ~is_success(status) THEN Status(status, bytes) ELSE Ok(last)


(***************************************************************************)
(* Inputs.  The tokens a caller constructs a Client with, as bytes: "AB",  *)
(* "A<tab>B", and three that are no header value: "A<lf>", "<del>",        *)
(* "<us>A".                                                                *)
(***************************************************************************)
Tokens == {<<65, 66>>, <<65, 9, 66>>, <<65, 10>>, <<127>>, <<31, 65>>}

\* The status codes the remote side answers with.
Statuses == {200, 299, 300, 404}

\* The response bodies the remote side answers with.
Obj(members) == <<LB>> \o members \o <<RB>>
Arr(elems) == <<LK>> \o elems \o <<RK>>
KV(k, v) == <<S(k), CO>> \o v
ErrFields == KV("code", <<S("invalid_access_token")>>) \o <<CM>>
             \o KV("message", <<S("Access token is missing or invalid.")>>)
UploadFields(url) ==
    KV("file_name", <<S("a.txt")>>) \o <<CM>> \o KV("file_type", <<S("text/plain")>>)
    \o <<CM>> \o KV("file_url", <<S("https://x/a.txt")>>)
    \o <<CM>> \o KV("upload_url", <<S(url)>>)
DeviceFields ==
    KV("active", <<L("true")>>) \o <<CM>> \o KV("created", <<N("1.5")>>) \o <<CM>>
    \o KV("iden", <<S("d1")>>) \o <<CM>> \o KV("modified", <<N("2")>>)
UserFields ==
    KV("created", <<N("1.5")>>) \o <<CM>> \o KV("email", <<S("a@b.c")>>) \o <<CM>>
    \o KV("email_normalized", <<S("a@b.c")>>) \o <<CM>> \o KV("iden", <<S("u1")>>)
    \o <<CM>> \o KV("max_upload_size", <<N("26214400")>>) \o <<CM>>
    \o KV("modified", <<N("2")>>) \o <<CM>> \o KV("name", <<S("A")>>)

B_ErrWell == Obj(KV("error", Obj(ErrFields)))
B_ErrExtra ==
    Obj(KV("error", Obj(ErrFields \o <<CM>> \o KV("type", <<S("invalid_request")>>)))
        \o <<CM>> \o KV("error_code", <<S("x")>>))
B_ErrSeq == Obj(KV("error", Arr(<<S("c"), CM, S("m")>>)))
B_ErrSeq3 == Obj(KV("error", Arr(<<S("c"), CM, S("m"), CM, S("x")>>)))
B_ErrNumCode ==
    Obj(KV("error", Obj(KV("code", <<N("401")>>) \o <<CM>> \o KV("message", <<S("m")>>))))
B_ErrNoMessage == Obj(KV("error", Obj(KV("code", <<S("c")>>))))
B_ErrString == Obj(KV("error", <<S("boom")>>))
B_ErrNull == Obj(KV("error", <<L("null")>>))
B_ErrTwice == Obj(KV("error", Obj(ErrFields)) \o <<CM>> \o KV("error", <<L("null")>>))
B_ErrInArray == Arr(B_ErrWell)
B_EmptyObject == Obj(<<>>)
B_Upload == Obj(UploadFields(GoodUrl))
B_UploadSeq == Arr(<<S("a.txt"), CM, S("text/plain"), CM, S("https://x/a.txt"), CM, S(GoodUrl)>>)
B_UploadEmptyUrl == Obj(UploadFields(EmptyUrl))
B_UploadSpaceUrl == Obj(UploadFields(SpaceUrl))
B_UploadNoUrl == Obj(KV("file_name", <<S("a.txt")>>) \o <<CM>> \o KV("file_type", <<S("text/plain")>>)
                     \o <<CM>> \o KV("file_url", <<S("https://x/a.txt")>>))
B_UploadErr == Obj(UploadFields(GoodUrl) \o <<CM>> \o KV("error", Obj(ErrFields)))
B_UploadErrString == Obj(UploadFields(GoodUrl) \o <<CM>> \o KV("error", <<S("boom")>>))
B_User == Obj(UserFields \o <<CM>> \o KV("image_url", <<S("https://x/i.png")>>))
B_UserNoImage == Obj(UserFields \o <<CM>> \o KV("extra", Arr(<<>>)))
B_UserBad == Obj(UserFields \o <<CM>> \o KV("image_url", <<N("1")>>))
B_Devices == Obj(KV("devices", Arr(Obj(DeviceFields) \o <<CM>>
                     \o Obj(DeviceFields \o <<CM>> \o KV("nickname", <<S("phone")>>)))))
B_DevicesNone == Obj(KV("devices", Arr(<<>>)))
B_DevicesBad == Obj(KV("devices", Arr(Obj(KV("active", <<L("true")>>)))))
B_Truncated == <<LB>> \o KV("error", <<LB>> \o ErrFields)
B_Trailing == B_ErrWell \o <<RB>>
B_TrailingComma == Obj(KV("error", Obj(ErrFields)) \o <<CM>>)

SampleBodies ==
    {B_ErrWell, B_ErrExtra, B_ErrSeq, B_ErrSeq3, B_ErrNumCode, B_ErrNoMessage,
     B_ErrString, B_ErrNull, B_ErrTwice, B_ErrInArray, B_EmptyObject,
     B_Upload, B_UploadSeq, B_UploadEmptyUrl, B_UploadSpaceUrl, B_UploadNoUrl,
     B_UploadErr, B_UploadErrString, B_User, B_UserNoImage, B_UserBad,
     B_Devices, B_DevicesNone, B_DevicesBad, B_Truncated, B_Trailing,
     B_TrailingComma}

\* Every sequence of at most MaxJunkLen lexemes: the empty body, scalars,
\* and bytes that are no JSON.
JunkLexemes == {LB, RB, S("error"), N("1"), JUNK}
JunkBodies == UNION {[1..n -> JunkLexemes] : n \in 0..MaxJunkLen}

Bodies == SampleBodies \cup JunkBodies

\* The bodies of the answers to the transfer: the empty body, bytes that
\* are no JSON, and JSON with an error object.
TransferBodies == {<<>>, <<JUNK>>, B_ErrWell}

\* The arguments of push.
PushTargets ==
    {[variant |-> "SelfUser"],
     [variant |-> "Device", iden |-> "d1"],
     [variant |-> "User", email |-> "a@b.c"],
     [variant |-> "Channel", tag |-> "news"],
     [variant |-> "Client", iden |-> "c1"]}
PushDatas ==
    {[variant |-> "Note", title |-> "T", body |-> "B"],
     [variant |-> "Link", title |-> "T", body |-> "B", url |-> "https://x/"],
     [variant |-> "File", body |-> "", file_name |-> "a.txt",
      file_type |-> "text/plain", file_url |-> "https://x/a.txt"]}

\* The arguments of upload_request.
FileNames == {"hello.txt"}
FileTypes == {"text/plain"}

\* The upload_data of the example: one chunk, "Hello, world!\n".
HelloWorld == << <<Byte("Hello, world!"), Byte("\\n")>> >>

\* The boundaries MultipartRequest::default() may draw.
OtherBoundary == "yradnuob"
Boundaries == {MultipartBoundary, OtherBoundary}

\* Chunks of upload_data: empty, plain bytes, a line break, dashes followed
\* by what may be drawn as the boundary, and a line break followed by them.
Chunks ==
    {<<>>, <<Byte("h")>>, <<CRLF>>, <<DashBoundary(MultipartBoundary)>>,
     <<CRLF, DashBoundary(MultipartBoundary)>>}

\* The streams of at most MaxChunks chunks.
UploadDatas == UNION {[1..n -> Chunks] : n \in 0..MaxChunks}

\* What the remote side answers in an upload on its own.
UploadStatuses == {200, 404}
UploadBodies == {B_Upload, B_UploadNoUrl}

(***************************************************************************)
(* The state.                                                              *)
(*   ctor          the constructor call made: [fn, token, tlsOk]           *)
(*   client        its Result<Client, StartupError>                        *)
(*   call          the call chain in progress: the operation called and    *)
(*                 its arguments; for upload_request, whether the caller   *)
(*                 chains a push on it (examples/upload-hello-world.rs)    *)
(*   op            the operation whose future is running                   *)
(*   pc            "idle", "request" (a pipeline request is with the       *)
(*                 transport), "transfer" (the transfer request is with    *)
(*                 the transport), "done"                                  *)
(*   sent          the requests handed to the transport in this chain,     *)
(*                 each with the operation that issued it                  *)
(*   resps         what the transport gave back for them, in order         *)
(*   pipe          the result of the last Client::request future           *)
(*   last_response what upload_request's first closure hands its second    *)
(*   uploadPolled  whether the caller's upload_data stream has been polled *)
(*   mpart         the multipart stream that is the transfer request's     *)
(*                 body, as far as the transport has polled it             *)
(*   wire          the bytes of that body the transport has been given,    *)
(*                 while the chain is at its upload                        *)
(*   results       the results of the operations of this chain, in order   *)
(***************************************************************************)
VARIABLES ctor, client, call, op, pc, sent, resps, pipe, last_response,
          uploadPolled, mpart, wire, results

vars == <<ctor, client, call, op, pc, sent, resps, pipe, last_response,
          uploadPolled, mpart, wire, results>>

Response(status, body) == [kind |-> "response", status |-> status, body |-> body]
TransportFailure == [kind |-> "failure"]

Init ==
    /\ ctor = NoResult
    /\ client = NoResult
    /\ call = [op |-> "none"]
    /\ op = "none"
    /\ pc = "idle"
    /\ sent = <<>>
    /\ resps = <<>>
    /\ pipe = NoResult
    /\ last_response = NoResult
    /\ uploadPolled = FALSE
    /\ mpart = NoResult
    /\ wire = <<>>
    /\ results = <<>>

chainVars == <<call, op, pc, sent, resps, pipe, last_response, uploadPolled, mpart, wire,
               results>>

\* Client::new(token)
new ==
    \E token \in Tokens, tlsOk \in BOOLEAN :
        /\ ctor = NoResult
        /\ ctor' = [fn |-> "new", token |-> token, tlsOk |-> tlsOk]
        /\ client' = Client_new(token, tlsOk)
        /\ UNCHANGED chainVars

\* Client::with_client(token, client)
with_client ==
    \E token \in Tokens :
        /\ ctor = NoResult
        /\ ctor' = [fn |-> "with_client", token |-> token, tlsOk |-> TRUE]
        /\ client' = Client_with_client(token)
        /\ UNCHANGED chainVars

\* A public operation is a method of a Client: it starts a chain by handing
\* its request to the transport.
Start(c, req) ==
    /\ client.kind = "Ok"
    /\ pc = "idle"
    /\ call' = c
    /\ op' = c.op
    /\ pc' = "request"
    /\ sent' = <<[by |-> c.op, req |-> req]>>
    /\ resps' = <<>>
    /\ pipe' = NoResult
    /\ last_response' = NoResult
    /\ uploadPolled' = FALSE
    /\ mpart' = NoResult
    /\ wire' = <<>>
    /\ results' = <<>>
    /\ UNCHANGED <<ctor, client>>

get_user == Start([op |-> "get_user"], get(client.v, "users/me"))

list_devices == Start([op |-> "list_devices"], get(client.v, "devices"))

push_request(self, target, data) == post(self, "pushes", to_string(Push_fields(target, data)))

push ==
    \E target \in PushTargets, data \in PushDatas :
        Start([op |-> "push", target |-> target, data |-> data],
              push_request(client.v, target, data))

upload_request_of(datas, chains) ==
    \E file_name \in FileNames, file_type \in FileTypes, upload_data \in datas,
       chain \in chains :
        Start([op |-> "upload_request", file_name |-> file_name,
               file_type |-> file_type, upload_data |-> upload_data, chain |-> chain],
              post(client.v, "upload-request",
                   to_string(<< <<"file_name", file_name>>, <<"file_type", file_type>> >>)))

upload_request == upload_request_of({HelloWorld}, BOOLEAN)

Finish(o, out) ==
    /\ results' = Append(results, [op |-> o, out |-> out])
    /\ pc' = "done"
    /\ UNCHANGED <<op, sent, last_response>>

\* A variant of TransportError that sends a chain's first request once more
\* when the transport fails on it.
TransportError_retry ==
    /\ pc \in {"request", "transfer"}
    /\ resps' = Append(resps, TransportFailure)
    /\ IF resps = <<>>
       THEN /\ sent' = Append(sent, sent[Len(sent)])
            /\ UNCHANGED <<op, pc, pipe, last_response, results>>
       ELSE /\ pipe' = IF pc = "request" THEN Hyper ELSE pipe
            /\ Finish(op, Hyper)
    /\ UNCHANGED <<ctor, client, call, uploadPolled, mpart, wire>>

\* The transport fails (sending, or reading the body): from_err gives Hyper.
TransportError ==
    /\ pc \in {"request", "transfer"}
    /\ resps' = Append(resps, TransportFailure)
    /\ pipe' = IF pc = "request" THEN Hyper ELSE pipe
    /\ Finish(op, Hyper)
    /\ UNCHANGED <<ctor, client, call, uploadPolled, mpart, wire>>

\* The response to a pipeline request is buffered: Client::request's closure
\* classifies it and the operation's closure runs on its success.
RequestResponse_of(statuses, bodies, boundaries) ==
    \E status \in statuses, body \in bodies, boundary \in boundaries :
        LET r == request_and_then(status, body)
        IN /\ pc = "request"
           /\ resps' = Append(resps, Response(status, body))
           /\ pipe' = r
           /\ CASE r.kind # "Ok" -> Finish(op, r)
                [] r.kind = "Ok" /\ op = "get_user" -> Finish(op, get_user_and_then(r.v))
                [] r.kind = "Ok" /\ op = "list_devices" ->
                       Finish(op, list_devices_and_then(r.v))
                [] r.kind = "Ok" /\ op = "push" -> Finish(op, push_map(r.v))
                [] r.kind = "Ok" /\ op = "upload_request" ->
                       LET u == upload_request_and_then(client.v.token, r.v,
                                                        call.upload_data, boundary)
                       IN IF u.kind # "Ok" THEN Finish(op, u)
                          ELSE /\ sent' = Append(sent, [by |-> op, req |-> u.v.request])
                               /\ last_response' = u.v.last_response
                               /\ pc' = "transfer"
                               /\ UNCHANGED <<op, results>>
           /\ mpart' = IF pc' = "transfer" THEN sent'[2].req.body ELSE mpart
           /\ UNCHANGED <<ctor, client, call, uploadPolled, wire>>

RequestResponse == RequestResponse_of(Statuses, Bodies, {MultipartBoundary})

\* A variant of TransferPoll in which upload_data is read as soon as
\* upload_request is called.
TransferPoll_early ==
    /\ pc \in {"request", "transfer"}
    /\ ~uploadPolled
    /\ uploadPolled' = TRUE
    /\ UNCHANGED <<ctor, client, call, op, pc, sent, resps, pipe, last_response, mpart,
                   wire, results>>

\* The transport polls the body of the transfer request, hyper::Body's
\* wrap_stream of the multipart stream, for its next chunk and writes it;
\* the multipart stream polls the caller's upload_data for the payload.
TransferPoll ==
    /\ pc = "transfer"
    /\ mpart.state # "finished"
    /\ LET chunk == MultipartRequest_poll(mpart)
       IN /\ mpart' = chunk.next
          /\ wire' = wire \o chunk.bytes
          /\ uploadPolled' = (uploadPolled \/ chunk.polled)
    /\ UNCHANGED <<ctor, client, call, op, pc, sent, resps, pipe, last_response, results>>

\* The response to the transfer is buffered: upload_request's last closure
\* checks its status.  On Ok the caller's and_then, if any, pushes the file:
\* the transfer request's body is dropped with its future, and the push
\* request is with the transport.
TransferResponse_of(statuses, bodies) ==
    \E status \in statuses, body \in bodies :
        LET out == upload_transfer_and_then(status, body, last_response)
            data == [variant |-> "File", body |-> "", file_name |-> out.v.file_name,
                     file_type |-> out.v.file_type, file_url |-> out.v.file_url]
        IN /\ pc = "transfer"
           /\ resps' = Append(resps, Response(status, body))
           /\ results' = Append(results, [op |-> op, out |-> out])
           /\ IF out.kind = "Ok" /\ call.chain
              THEN /\ op' = "push"
                   /\ pc' = "request"
                   /\ mpart' = NoResult
                   /\ wire' = <<>>
                   /\ sent' = Append(sent, [by |-> "push",
                                            req |-> push_request(client.v,
                                                       [variant |-> "SelfUser"], data)])
              ELSE /\ pc' = "done"
                   /\ UNCHANGED <<op, sent, mpart, wire>>
           /\ UNCHANGED <<ctor, client, call, pipe, last_response, uploadPolled>>

TransferResponse == TransferResponse_of(Statuses, TransferBodies)

\* The caller is done with a finished chain; the Client serves the next one.
Return ==
    /\ pc = "done"
    /\ call' = [op |-> "none"]
    /\ op' = "none"
    /\ pc' = "idle"
    /\ sent' = <<>>
    /\ resps' = <<>>
    /\ pipe' = NoResult
    /\ last_response' = NoResult
    /\ uploadPolled' = FALSE
    /\ mpart' = NoResult
    /\ wire' = <<>>
    /\ results' = <<>>
    /\ UNCHANGED <<ctor, client>>

Next ==
    \/ new
    \/ with_client
    \/ get_user
    \/ list_devices
    \/ push
    \/ upload_request
    \/ TransportError
    \/ RequestResponse
    \/ TransferPoll
    \/ TransferResponse
    \/ Return

Spec == Init /\ [][Next]_vars

(***************************************************************************)
(* An upload on its own, with every stream of chunks as its upload_data    *)
(* and every boundary the multipart stream may draw.                       *)
(***************************************************************************)
upload_request_streams == upload_request_of(UploadDatas, {FALSE})
UploadRequestResponse == RequestResponse_of(UploadStatuses, UploadBodies, Boundaries)
UploadTransferResponse == TransferResponse_of(UploadStatuses, {<<>>})

NextMultipart ==
    \/ with_client
    \/ upload_request_streams
    \/ TransportError
    \/ UploadRequestResponse
    \/ TransferPoll
    \/ UploadTransferResponse
    \/ Return

SpecMultipart == Init /\ [][NextMultipart]_vars

(***************************************************************************)
(* The vocabulary of the properties.                                       *)
(***************************************************************************)
\* The place in resps of the response Client::request classified last: the
\* first of a chain, or the third when the chain is at its chained push.
PipeIndex == IF call.op = "upload_request" /\ op = "push" THEN 3 ELSE 1

\* A response to a pipeline request has been classified.
Classified == Len(resps) >= PipeIndex /\ resps[PipeIndex].kind = "response"
PipeStatus == resps[PipeIndex].status
PipeBody == resps[PipeIndex].body

LastResult == results[Len(results)]

ValidJson(body) == from_slice(body).ok

\* The body is a JSON object whose field "error" is an object with string
\* fields code and message.
WellFormedError(body) ==
    /\ ValidJson(body)
    /\ LET v == from_slice(body).v
       IN /\ v.t = "obj"
          /\ "error" \in DOMAIN v.o
          /\ v.o["error"].t = "obj"
          /\ {"code", "message"} \subseteq DOMAIN v.o["error"].o
          /\ v.o["error"].o["code"].t = "str"
          /\ v.o["error"].o["message"].t = "str"

ErrorCode(body) == from_slice(body).v.o["error"].o["code"].s
ErrorMessage(body) == from_slice(body).v.o["error"].o["message"].s

(***************************************************************************)
(* C1: a response whose body is valid JSON with a well-formed error object *)
(* (an object "error" with string fields code and message) makes the       *)
(* request pipeline, and the operation that used it, end with              *)
(* Server{code, message} of those two strings, whatever the status is.     *)
(***************************************************************************)
C1_ServerWhateverStatus ==
    (Classified /\ WellFormedError(PipeBody)) =>
        /\ pipe = Server(ErrorCode(PipeBody), ErrorMessage(PipeBody))
        /\ pc = "done"
        /\ LastResult.op = op
        /\ LastResult.out = Server(ErrorCode(PipeBody), ErrorMessage(PipeBody))

\* A well-formed error object has come with a 2xx status, and one with a
\* status that is not 2xx, and the pipeline gave Server.
C1_Witness2xx ==
    /\ Classified /\ WellFormedError(PipeBody) /\ is_success(PipeStatus)
    /\ pipe.kind = "Server" /\ pipe.code = "invalid_access_token"

(***************************************************************************)
(* C2: a response with a status that is not 2xx and a JSON body without a  *)
(* well-formed error object (no "error" field, or a malformed one) makes   *)
(* the pipeline return Status{status, bytes} with the response's status    *)
(* and exact body.                                                         *)
(***************************************************************************)
C2_StatusWithoutWellFormedError ==
    (Classified /\ ValidJson(PipeBody) /\ ~WellFormedError(PipeBody)
        /\ ~is_success(PipeStatus)) =>
        pipe = Status(PipeStatus, PipeBody)

(***************************************************************************)
(* C3: a response whose body is not valid JSON makes the pipeline, and the *)
(* operation that used it, end with Json carrying the response's bytes     *)
(* unchanged, whatever the status is; never Status or Server.              *)
(***************************************************************************)
C3_JsonFirst ==
    (Classified /\ ~ValidJson(PipeBody)) =>
        /\ pipe.kind = "Json" /\ pipe.bytes = PipeBody
        /\ pc = "done"
        /\ LastResult.op = op
        /\ LastResult.out.kind = "Json" /\ LastResult.out.bytes = PipeBody

\* Bytes that are no JSON have come with a status that is not 2xx.
C3_WitnessNot2xx ==
    /\ Classified /\ ~ValidJson(PipeBody) /\ ~is_success(PipeStatus)
    /\ PipeBody # <<>>
    /\ pipe.kind = "Json"

(***************************************************************************)
(* C4: the pipeline returns success exactly when the body is valid JSON,   *)
(* has no well-formed error object and the status is 2xx, and the success  *)
(* is the pair (the body's bytes, their decoding); otherwise it is Json    *)
(* for a body that is no JSON, else Server for a well-formed error object, *)
(* else Status.                                                            *)
(***************************************************************************)
C4_SuccessExactly ==
    Classified =>
        /\ pipe.kind = "Ok" <=>
              (ValidJson(PipeBody) /\ ~WellFormedError(PipeBody) /\ is_success(PipeStatus))
        /\ pipe.kind = "Ok" =>
              (pipe.v.bytes = PipeBody /\ pipe.v.data = from_slice(PipeBody).v)
        /\ pipe.kind # "Ok" =>
              pipe.kind = (IF ~ValidJson(PipeBody) THEN "Json"
                           ELSE IF WellFormedError(PipeBody) THEN "Server"
                           ELSE "Status")

(***************************************************************************)
(* The vocabulary of the properties about upload_request.                  *)
(***************************************************************************)
UploadChain == call.op = "upload_request"

\* The response to the transfer has been received.
TransferAnswered == UploadChain /\ Len(resps) >= 2 /\ resps[2].kind = "response"

\* The body decodes into file_name, file_type, file_url, upload_url: an
\* object with these four string fields, or an array of four strings.
RawNames == <<"file_name", "file_type", "file_url", "upload_url">>
HasRawFields(body) ==
    /\ ValidJson(body)
    /\ LET v == from_slice(body).v
       IN \/ /\ v.t = "obj"
             /\ \A i \in 1..4 : RawNames[i] \in DOMAIN v.o /\ v.o[RawNames[i]].t = "str"
          \/ /\ v.t = "arr"
             /\ Len(v.a) = 4
             /\ \A i \in 1..4 : v.a[i].t = "str"
RawField(body, i) ==
    LET v == from_slice(body).v
    IN IF v.t = "obj" THEN v.o[RawNames[i]].s ELSE v.a[i].s

\* The request phase succeeded: the pipeline's success and the decoding.
RequestPhaseSucceeded ==
    /\ Len(resps) >= 1
    /\ resps[1].kind = "response"
    /\ is_success(resps[1].status)
    /\ ValidJson(resps[1].body)
    /\ ~WellFormedError(resps[1].body)
    /\ HasRawFields(resps[1].body)

ErrorKinds == {"Http", "Hyper", "Status", "Json", "Server"}

(***************************************************************************)
(* C5: upload_request classifies the transfer's response by its status     *)
(* only: a status that is not 2xx gives Status with that status and the    *)
(* body's bytes; a 2xx status gives the file_name, file_type and file_url  *)
(* decoded from the request phase's response, whatever the transfer's body *)
(* is.                                                                     *)
(***************************************************************************)
C5_TransferByStatusOnly ==
    TransferAnswered =>
        /\ Len(results) >= 1
        /\ results[1].op = "upload_request"
        /\ results[1].out =
              IF is_success(resps[2].status)
              THEN Ok([file_name |-> RawField(resps[1].body, 1),
                       file_type |-> RawField(resps[1].body, 2),
                       file_url |-> RawField(resps[1].body, 3)])
              ELSE Status(resps[2].status, resps[2].body)

\* A 2xx transfer whose body is JSON with a well-formed error object gave
\* the request phase's file.
C5_Witness2xxErrorBody ==
    /\ TransferAnswered
    /\ is_success(resps[2].status)
    /\ WellFormedError(resps[2].body)
    /\ results[1].out.kind = "Ok"
    /\ results[1].out.v.file_url = "https://x/a.txt"

(***************************************************************************)
(* C6: upload_request has no partial success: it yields its response only  *)
(* if the request phase succeeded and the transfer then answered 2xx; a    *)
(* failure of either phase ends the operation, and the chain, with the     *)
(* error of that phase and no response for the caller.                     *)
(***************************************************************************)
C6_NoPartialSuccess ==
    (UploadChain /\ Len(results) >= 1) =>
        LET out == results[1].out
        IN /\ results[1].op = "upload_request"
           /\ \A i \in 2..Len(results) : results[i].op # "upload_request"
           /\ out.kind = "Ok" =>
                 /\ RequestPhaseSucceeded
                 /\ TransferAnswered
                 /\ is_success(resps[2].status)
           /\ out.kind # "Ok" =>
                 /\ out.kind \in ErrorKinds
                 /\ pc = "done"
                 /\ Len(results) = 1
                 /\ IF Len(resps) = 1
                    THEN \/ pipe.kind # "Ok" /\ out = pipe
                         \/ pipe.kind = "Ok" /\ out = Json("data", resps[1].body)
                         \/ pipe.kind = "Ok" /\ out = Http
                    ELSE /\ Len(resps) = 2
                         /\ RequestPhaseSucceeded
                         /\ \/ resps[2].kind = "failure" /\ out = Hyper
                            \/ /\ resps[2].kind = "response"
                               /\ ~is_success(resps[2].status)
                               /\ out = Status(resps[2].status, resps[2].body)

\* The request phase succeeded, the transfer was refused, and the operation
\* ended with the transfer's Status.
C6_WitnessTransferRefused ==
    /\ UploadChain /\ call.chain
    /\ RequestPhaseSucceeded
    /\ TransferAnswered /\ ~is_success(resps[2].status)
    /\ pc = "done"
    /\ results = <<[op |-> "upload_request",
                    out |-> Status(resps[2].status, resps[2].body)]>>

(***************************************************************************)
(* C7: within a chain a request is issued only after the one before it     *)
(* completed successfully: the POST to upload_url only after the request   *)
(* phase's response was classified as success and decoded, the chained     *)
(* push only after the transfer answered 2xx; after a failed step no       *)
(* request is issued, and upload_data is not read unless the request phase *)
(* succeeded.                                                              *)
(***************************************************************************)
C7_IssuedAfterSuccess ==
    /\ Len(sent) <= Len(resps) + 1
    /\ Len(sent) >= 2 =>
          /\ UploadChain
          /\ sent[2].by = "upload_request"
          /\ RequestPhaseSucceeded
          /\ sent[2].req.uri = RawField(resps[1].body, 4)
    /\ Len(sent) >= 3 =>
          /\ Len(sent) = 3
          /\ call.chain
          /\ sent[3].by = "push"
          /\ TransferAnswered
          /\ is_success(resps[2].status)
    /\ (\E i \in 1..Len(results) : results[i].out.kind # "Ok") =>
          (pc = "done" /\ Len(sent) = Len(resps))
    /\ (\E i \in 1..Len(resps) : resps[i].kind = "failure") =>
          (pc = "done" /\ Len(sent) = Len(resps) /\ resps[Len(resps)].kind = "failure")
    /\ uploadPolled => (Len(sent) >= 2 /\ RequestPhaseSucceeded)

\* The chained push is with the transport: the third request of the chain.
C7_WitnessChainedPush ==
    /\ UploadChain
    /\ Len(sent) = 3
    /\ sent[3].by = "push"
    /\ sent[3].req.uri = "https://api.pushbullet.com/v2/pushes"
    /\ uploadPolled

(***************************************************************************)
(* C8: no retries: a call of get_user, list_devices or push hands exactly  *)
(* one request to the transport, a call of upload_request at most two, one *)
(* per phase; a failure ends the call at once and nothing is sent again.   *)
(***************************************************************************)
SentBy(o) == Cardinality({i \in 1..Len(sent) : sent[i].by = o})

C8_NoRetries ==
    /\ \A o \in {"get_user", "list_devices", "push"} : SentBy(o) <= 1
    /\ SentBy("upload_request") <= 2
    /\ \A i \in 1..Len(results) :
          /\ SentBy(results[i].op) >= 1
          /\ results[i].op # "upload_request" => SentBy(results[i].op) = 1
    /\ \A i, j \in 1..Len(sent) :
          (i < j /\ sent[i].by = sent[j].by) => sent[i].req.uri # sent[j].req.uri
    /\ \A i \in 1..Len(resps) :
          (resps[i].kind = "failure" \/ ~is_success(resps[i].status)
              \/ (i # 2 /\ ~ValidJson(resps[i].body))
              \/ (i # 2 /\ WellFormedError(resps[i].body))) =>
          (pc = "done" /\ Len(sent) = i /\ LastResult.out.kind # "Ok")

\* A get_user whose transport failed has ended with Hyper after one request.
C8_WitnessOneFailedRequest ==
    /\ pc = "done"
    /\ call.op = "get_user"
    /\ resps = <<TransportFailure>>
    /\ LastResult.out = Hyper
    /\ Len(sent) = 1

(***************************************************************************)
(* C9: every public operation ends in success or in one RequestError, and  *)
(* none panics on what the remote side does: a transport failure gives     *)
(* Hyper, a bad status Status, a body that is no JSON or not of the        *)
(* expected shape Json with the raw bytes, an application error Server,    *)
(* and an upload_url no request can be built from Http.                    *)
(***************************************************************************)
\* The place in resps of the response that decided results[i].
RespOf(i) ==
    IF i = 2 THEN 3
    ELSE IF UploadChain /\ Len(resps) >= 2 THEN 2
    ELSE 1

\* The type an operation decodes the pipeline's success into.
Expected(o) ==
    CASE o = "get_user" -> "User"
      [] o = "list_devices" -> "Devices"
      [] o = "upload_request" -> "RawUploadRequestResponse"

IllegalHeaderValue(token) ==
    \E i \in 1..Len(token) : (token[i] < 32 /\ token[i] # 9) \/ token[i] = 127

\* As claimed: both constructors fail with InvalidToken carrying the token.
C10_InvalidTokenAlways ==
    (ctor # NoResult /\ IllegalHeaderValue(ctor.token)) =>
        /\ client = InvalidToken(ctor.token)
        /\ sent = <<>>

\* As amended: with_client fails with InvalidToken carrying the token;
\* Client::new does so unless the TLS connector fails to start, which it
\* reports first, as Tls.  No Client exists and no request is sent.
C10_InvalidTokenUnlessTls ==
    (ctor # NoResult /\ IllegalHeaderValue(ctor.token)) =>
        /\ client = (IF ctor.fn = "new" /\ ~ctor.tlsOk THEN Tls
                     ELSE InvalidToken(ctor.token))
        /\ pc = "idle"
        /\ sent = <<>>

\* with_client was given "A<lf>" and failed with InvalidToken("A<lf>").
C10_WitnessInvalidToken ==
    /\ ctor # NoResult
    /\ ctor.fn = "with_client"
    /\ ctor.token = <<65, 10>>
    /\ client = InvalidToken(<<65, 10>>)

(***************************************************************************)
(* The vocabulary of the properties about push.                            *)
(***************************************************************************)
\* The arguments of the push that issued sent[i]: the caller's, or for the
\* push chained on an upload the ones the example builds from its response.
PushedTarget(i) == IF i = 1 THEN call.target ELSE [variant |-> "SelfUser"]
PushedData(i) ==
    IF i = 1 THEN call.data
    ELSE [variant |-> "File", body |-> "",
          file_name |-> results[1].out.v.file_name,
          file_type |-> results[1].out.v.file_type,
          file_url |-> results[1].out.v.file_url]

\* The wire name of the target's field, none for SelfUser, and its value.
WireTarget(target) ==
    CASE target.variant = "SelfUser" -> <<>>
      [] target.variant = "Device" -> ("device_iden" :> target.iden)
      [] target.variant = "User" -> ("email" :> target.email)
      [] target.variant = "Channel" -> ("channel_tag" :> target.tag)
      [] target.variant = "Client" -> ("client_iden" :> target.iden)

\* The discriminant and the fields of the data variant.
WireData(data) ==
    CASE data.variant = "Note" ->
            [type |-> "note", title |-> data.title, body |-> data.body]
      [] data.variant = "Link" ->
            [type |-> "link", title |-> data.title, body |-> data.body, url |-> data.url]
      [] data.variant = "File" ->
            [type |-> "file", body |-> data.body, file_name |-> data.file_name,
             file_type |-> data.file_type, file_url |-> data.file_url]

\* The body is one JSON object whose members are exactly the string fields
\* of want, each once.
FlatObjectOf(body, want) ==
    /\ ValidJson(body)
    /\ LET v == from_slice(body).v
       IN /\ v.t = "obj"
          /\ DOMAIN v.o = DOMAIN want
          /\ \A k \in DOMAIN want : v.o[k].t = "str" /\ v.o[k].s = want[k]
    /\ Len(body) = 4 * Cardinality(DOMAIN want) + 1

(***************************************************************************)
(* C11: for every target and data, push POSTs to "pushes" one flat JSON    *)
(* object whose fields are exactly the data variant's fields, the          *)
(* discriminant "type" (note, link or file) and the target's field under   *)
(* its wire name (none for SelfUser, device_iden, email, channel_tag,      *)
(* client_iden): no wrapping tag and no other field.                       *)
(***************************************************************************)
C11_PushFlatObject ==
    \A i \in 1..Len(sent) :
        sent[i].by = "push" =>
            /\ sent[i].req.method = "POST"
            /\ sent[i].req.uri = "https://api.pushbullet.com/v2/pushes"
            /\ FlatObjectOf(sent[i].req.body,
                            WireData(PushedData(i)) @@ WireTarget(PushedTarget(i)))

\* push(Device{iden: "d1"}, Note{title: "T", body: "B"}) has sent exactly
\* type=note, title=T, body=B, device_iden=d1.
C11_WitnessDeviceNote ==
    /\ call.op = "push"
    /\ call.target = [variant |-> "Device", iden |-> "d1"]
    /\ call.data = [variant |-> "Note", title |-> "T", body |-> "B"]
    /\ Len(sent) = 1
    /\ from_slice(sent[1].req.body).v.o =
          [type |-> VStr("note"), title |-> VStr("T"), body |-> VStr("B"),
           device_iden |-> VStr("d1")]

(***************************************************************************)
(* The vocabulary of the property about the multipart body: a parser of    *)
(* multipart/form-data.  A body is a dash-boundary line, then parts set    *)
(* apart by delimiters (a line break, the dashes and the boundary), the    *)
(* last delimiter followed by "--".  A part is header lines, an empty      *)
(* line, and the payload up to the next delimiter.                         *)
(***************************************************************************)
DelimiterAt(bytes, boundary, i) ==
    /\ i + 1 <= Len(bytes)
    /\ bytes[i] = CRLF
    /\ bytes[i + 1] = DashBoundary(boundary)

\* The place of the first delimiter in bytes, 0 if there is none.
FirstDelimiter(bytes, boundary) ==
    IF \E i \in 1..Len(bytes) : DelimiterAt(bytes, boundary, i)
    THEN CHOOSE i \in 1..Len(bytes) :
            /\ DelimiterAt(bytes, boundary, i)
            /\ \A j \in 1..(i - 1) : ~DelimiterAt(bytes, boundary, j)
    ELSE 0

\* The header lines up to the empty line: [ok, fields, rest].
RECURSIVE ParseHeaders(_)
ParseHeaders(bytes) ==
    IF bytes = <<>> THEN Fail
    ELSE IF Head(bytes) = CRLF
    THEN [ok |-> TRUE, fields |-> <<>>, rest |-> Tail(bytes)]
    ELSE IF \A i \in 1..Len(bytes) : bytes[i] # CRLF THEN Fail
    ELSE LET k == CHOOSE i \in 1..Len(bytes) :
                     bytes[i] = CRLF /\ \A j \in 1..(i - 1) : bytes[j] # CRLF
             more == ParseHeaders(SubSeq(bytes, k + 1, Len(bytes)))
         IN IF ~more.ok THEN Fail
            ELSE [ok |-> TRUE, fields |-> SubSeq(bytes, 1, k - 1) \o more.fields,
                  rest |-> more.rest]

\* The parts of a body from the start of its first part on: [ok, parts].
RECURSIVE ParseParts(_, _)
ParseParts(bytes, boundary) ==
    LET h == ParseHeaders(bytes)
    IN IF ~h.ok THEN Fail
       ELSE LET d == FirstDelimiter(h.rest, boundary)
                after == SubSeq(h.rest, d + 2, Len(h.rest))
                part == [fields |-> h.fields, payload |-> SubSeq(h.rest, 1, d - 1)]
            IN IF d = 0 \/ after = <<>> THEN Fail
               ELSE IF Head(after) = DashDash THEN [ok |-> TRUE, parts |-> <<part>>]
               ELSE IF Head(after) # CRLF THEN Fail
               ELSE LET more == ParseParts(Tail(after), boundary)
                    IN IF ~more.ok THEN Fail
                       ELSE [ok |-> TRUE, parts |-> <<part>> \o more.parts]

MultipartParse(bytes, boundary) ==
    IF Len(bytes) >= 2 /\ bytes[1] = DashBoundary(boundary) /\ bytes[2] = CRLF
    THEN ParseParts(SubSeq(bytes, 3, Len(bytes)), boundary)
    ELSE Fail

\* A part declares x under the header parameter tk, once.
Declares(part, tk, x) ==
    /\ Cardinality({i \in 1..Len(part.fields) : part.fields[i].tk = tk}) = 1
    /\ \E i \in 1..Len(part.fields) : part.fields[i] = [tk |-> tk, lex |-> x]

\* The bytes of a stream of chunks, in order.
RECURSIVE Flatten(_)
Flatten(chunks) == IF chunks = <<>> THEN <<>> ELSE Head(chunks) \o Flatten(Tail(chunks))

\* The boundary the transfer request declares in its content-type header.
DeclaredBoundary(req) ==
    CHOOSE b \in Boundaries : req.headers[CONTENT_TYPE] = "multipart/form-data; boundary=" \o b

\* The transport has been given the whole body of the transfer request.
TransferBodySent == UploadChain /\ Len(sent) = 2 /\ mpart.state = "finished"

\* The body sent parses into one part "file" with the stream's bytes as its
\* payload, declaring file_name and file_type.
RoundTrip(file_name, file_type) ==
    LET parsed == MultipartParse(wire, DeclaredBoundary(sent[2].req))
    IN /\ parsed.ok
       /\ Len(parsed.parts) = 1
       /\ Declares(parsed.parts[1], "disposition-name", "file")
       /\ Declares(parsed.parts[1], "disposition-filename", file_name)
       /\ Declares(parsed.parts[1], "content-type", file_type)
       /\ parsed.parts[1].payload = Flatten(call.upload_data)

\* The bytes do not hold the dashes followed by the boundary.
BoundaryFree(bytes, boundary) ==
    \A i \in 1..Len(bytes) : bytes[i] # DashBoundary(boundary)

(***************************************************************************)
(* C12: for any byte sequence given to upload_request as a stream of       *)
(* chunks, the multipart body sent in the transfer phase parses into       *)
(* exactly one field named file whose payload is the original byte         *)
(* sequence, the chunks in their order, none dropped, duplicated or added, *)
(* and whose declared name and type match the inputs.                      *)
(***************************************************************************)
\* As claimed: for every stream, and the name and type are the arguments of
\* upload_request.
C12_RoundTripOfInputs ==
    TransferBodySent => RoundTrip(call.file_name, call.file_type)

\* As amended: the declared name and type are the file_name and file_type
\* of the request phase's response, and the payload is one that does not
\* hold the boundary drawn for the body.
C12_RoundTripOfResponseNames ==
    (TransferBodySent
        /\ BoundaryFree(Flatten(call.upload_data), DeclaredBoundary(sent[2].req))) =>
        RoundTrip(RawField(resps[1].body, 1), RawField(resps[1].body, 2))

\* A stream of two chunks holding a line break and dashes has been sent
\* whole, under a boundary it does not hold, and parses back into its bytes.
C12_WitnessTwoChunks ==
    /\ TransferBodySent
    /\ call.upload_data = << <<CRLF, DashBoundary(MultipartBoundary)>>, <<Byte("h")>> >>
    /\ DeclaredBoundary(sent[2].req) = OtherBoundary
    /\ MultipartParse(wire, OtherBoundary).ok
    /\ MultipartParse(wire, OtherBoundary).parts[1].payload =
          <<CRLF, DashBoundary(MultipartBoundary), Byte("h")>>
    /\ RawField(resps[1].body, 1) # call.file_name
====
